---- MODULE Spec2Model ----
(***************************************************************************)
(* A model of the one-billion-row aggregation in rust/src/lib.rs:          *)
(* parse_digits, CityDetails (default, update, Display), read_mmap,        *)
(* read_mmap_unsafe and print.                                             *)
(*                                                                         *)
(* Bytes are their ASCII codes, byte strings are sequences of codes.       *)
(* Integer arithmetic keeps the width of the Rust types: an overflow       *)
(* panics in a build with overflow checks ("debug") and wraps in a build   *)
(* without them ("release").                                               *)
(***************************************************************************)
EXTENDS Integers, Sequences, FiniteSets, TLC

VARIABLES
    build,      \* "debug" (overflow checks on) or "release" (wrapping)
    field,      \* the numeric field handed to parse_digits: its parts and bytes
    parsed,     \* what parse_digits returned for it
    details,    \* one CityDetails record under a sequence of update calls
    observed,   \* what has really been fed to details: exact sum and count
    mmap,       \* the buffer handed to read_mmap and read_mmap_unsafe
    mmap2,      \* a second buffer, a permutation of mmap's lines
    checked,    \* the call read_mmap(&mmap)
    trusted,    \* the call read_mmap_unsafe(&mmap)
    permuted,   \* the call read_mmap(&mmap2)
    out         \* what print has written

vars == <<build, field, parsed, details, observed, mmap, mmap2, checked,
          trusted, permuted, out>>

----------------------------------------------------------------------------
(* Bytes the code matches on. *)

SEMI == 59
NL == 10
MINUS == 45
DOT == 46
ZERO == 48
NINE == 57

(* Widths of the integer types. *)

I16Max == 32767
I16Min == -32768
I32Max == 2147483647
I32Min == -I32Max - 1
Limb == 65536

Builds == {"debug", "release"}

InI16(x) == I16Min <= x /\ x <= I16Max

Wrap16(x) == ((x - I16Min) % Limb) + I16Min

(* s + m leaves i32, decided without leaving it. *)
AddOverflowsI32(s, m) ==
    \/ m > 0 /\ s > I32Max - m
    \/ m < 0 /\ s < I32Min - m

(* s + m reduced modulo 2^32 into i32. *)
WrapAddI32(s, m) ==
    IF m > 0 /\ s > I32Max - m THEN (s - I32Max - 1) + (m - I32Max - 1)
    ELSE IF m < 0 /\ s < I32Min - m THEN (s + I32Max + 1) + (m + I32Max + 1)
    ELSE s + m

(* count = u32::MAX, written on the two 16-bit halves of count. *)
CountAtMax(c) == c \div Limb = Limb - 1 /\ c % Limb = Limb - 1

----------------------------------------------------------------------------
(* Exact integers of any size, as a pair of limbs: hi * 2^16 + lo with     *)
(* lo in 0 .. 2^16 - 1.  They hold what was really observed, so that a     *)
(* wrapped accumulator can be told from an exact one.                      *)

Big(x) == [hi |-> x \div Limb, lo |-> x % Limb]

BigAdd(b, x) ==
    [hi |-> b.hi + ((b.lo + x) \div Limb), lo |-> (b.lo + x) % Limb]

----------------------------------------------------------------------------
(* parse_digits *)

IsDigit(byte) == ZERO <= byte /\ byte <= NINE

(* One turn of the for loop over the bytes: st is [mul, acc, ok]. *)
parse_byte(st, byte, bld) ==
    IF ~st.ok THEN st
    ELSE IF IsDigit(byte) THEN
        LET t == st.acc * 10
            r == t + (byte - ZERO)
        IN  IF InI16(t) /\ InI16(r) THEN [st EXCEPT !.acc = r]
            ELSE IF bld = "debug" THEN [st EXCEPT !.ok = FALSE]
            ELSE [st EXCEPT !.acc = Wrap16(Wrap16(t) + (byte - ZERO))]
    ELSE IF byte = MINUS THEN [st EXCEPT !.mul = -1]
    ELSE st

RECURSIVE parse_fold(_, _, _)
parse_fold(st, bytes, bld) ==
    IF bytes = <<>> THEN st
    ELSE parse_fold(parse_byte(st, Head(bytes), bld), Tail(bytes), bld)

(* parse_digits that drops the sign: it returns acc, not mul * acc. *)
parse_digits_skip_minus(bytes, bld) ==
    LET st == parse_fold([mul |-> 1, acc |-> 0, ok |-> TRUE], bytes, bld)
    IN  [ok |-> st.ok, val |-> IF st.ok THEN st.acc ELSE 0]

(* The i16 returned, or ok = FALSE for the overflow panic. *)
parse_digits(bytes, bld) ==
    LET st == parse_fold([mul |-> 1, acc |-> 0, ok |-> TRUE], bytes, bld)
        p  == st.mul * st.acc
    IN  IF ~st.ok THEN [ok |-> FALSE, val |-> 0]
        ELSE IF InI16(p) THEN [ok |-> TRUE, val |-> p]
        ELSE IF bld = "debug" THEN [ok |-> FALSE, val |-> 0]
        ELSE [ok |-> TRUE, val |-> Wrap16(p)]

----------------------------------------------------------------------------
(* CityDetails *)

CityDetailsDefault == [min |-> I16Max, max |-> I16Min, sum |-> 0, count |-> 0]

(* update with the second test chained to the first by an else. *)
update_else_if(self, meas, bld) ==
    LET mn == IF self.min > meas THEN meas ELSE self.min
        mx == IF self.min > meas THEN self.max
              ELSE IF self.max < meas THEN meas ELSE self.max
    IN  [ok |-> TRUE,
         rec |-> [min |-> mn, max |-> mx, sum |-> WrapAddI32(self.sum, meas),
                  count |-> self.count + 1]]

(* update that adds the measurement to sum twice. *)
update_double_sum(self, meas, bld) ==
    LET mn == IF self.min > meas THEN meas ELSE self.min
        mx == IF self.max < meas THEN meas ELSE self.max
    IN  [ok |-> TRUE,
         rec |-> [min |-> mn, max |-> mx,
                  sum |-> WrapAddI32(WrapAddI32(self.sum, meas), meas),
                  count |-> self.count + 1]]

(* The record after update(meas), or ok = FALSE for an overflow panic. *)
update(self, meas, bld) ==
    LET mn == IF self.min > meas THEN meas ELSE self.min
        mx == IF self.max < meas THEN meas ELSE self.max
        sumOver == AddOverflowsI32(self.sum, meas)
        cntOver == CountAtMax(self.count)
    IN  IF bld = "debug" /\ (sumOver \/ cntOver)
        THEN [ok |-> FALSE, rec |-> self]
        ELSE [ok |-> TRUE,
              rec |-> [min |-> mn, max |-> mx,
                       sum |-> WrapAddI32(self.sum, meas),
                       count |-> IF cntOver THEN 0 ELSE self.count + 1]]

(* The record after n updates with the same measurement v, none of which   *)
(* overflows: min = max = v, sum = n * v, count = n.                       *)
AllSame(v, n) ==
    IF n = 0 THEN CityDetailsDefault
    ELSE [min |-> v, max |-> v, sum |-> n * v, count |-> n]

----------------------------------------------------------------------------
(* The buffer.  Its bytes are `line` repeated `reps` times followed by     *)
(* `tail`; offsets are those of the whole buffer, from 0.  A scan that     *)
(* starts with reps > 0 has already consumed the repeated lines.           *)

Base(b) == b.reps * Len(b.line)
BufLen(b) == Base(b) + Len(b.tail)

(* &mmap[from..to], for from at or after the repeated lines. *)
Slice(b, from, to) ==
    IF from >= to \/ from >= BufLen(b) THEN <<>>
    ELSE SubSeq(b.tail, from - Base(b) + 1,
                (IF to > BufLen(b) THEN BufLen(b) ELSE to) - Base(b))

(* &mmap[from..] *)
Rest(b, from) == Slice(b, from, BufLen(b))

(* memchr::memchr(needle, haystack): the offset of the first needle, or    *)
(* none.                                                                   *)
memchr(needle, haystack) ==
    LET hits == {i \in 1..Len(haystack) : haystack[i] = needle}
    IN  IF hits = {} THEN [some |-> FALSE, i |-> 0]
        ELSE [some |-> TRUE,
              i |-> (CHOOSE i \in hits : \A j \in hits : i <= j) - 1]

----------------------------------------------------------------------------
(* The aggregation table and the finalisation. *)

(* map.entry(city).or_default().update(meas) *)
entry_update(map, city, meas, bld) ==
    LET old == IF city \in DOMAIN map THEN map[city] ELSE CityDetailsDefault
        r   == update(old, meas, bld)
    IN  [ok |-> r.ok,
         map |-> IF ~r.ok THEN map
                 ELSE IF city \in DOMAIN map THEN [map EXCEPT ![city] = r.rec]
                 ELSE (city :> r.rec) @@ map]

EmptyMap == [k \in {} |-> CityDetailsDefault]

(* a.cmp(b) on byte strings compared by length before content. *)
cmp_by_length(a, b) ==
    IF Len(a) # Len(b) THEN (IF Len(a) < Len(b) THEN -1 ELSE 1)
    ELSE IF a = b THEN 0
    ELSE LET k == CHOOSE i \in 1..Len(a) :
                      a[i] # b[i] /\ \A j \in 1..(i - 1) : a[j] = b[j]
         IN  IF a[k] < b[k] THEN -1 ELSE 1

(* a.cmp(b) on byte strings: -1, 0 or 1, byte by byte from the left, a     *)
(* proper prefix before the longer string.                                 *)
RECURSIVE cmp(_, _)
cmp(a, b) ==
    IF a = <<>> THEN (IF b = <<>> THEN 0 ELSE -1)
    ELSE IF b = <<>> THEN 1
    ELSE IF Head(a) < Head(b) THEN -1
    ELSE IF Head(a) > Head(b) THEN 1
    ELSE cmp(Tail(a), Tail(b))

(* One entry put in its place in an already sorted sequence. *)
RECURSIVE sort_insert(_, _)
sort_insert(sorted, e) ==
    IF sorted = <<>> THEN <<e>>
    ELSE IF cmp(e.city, Head(sorted).city) < 0 THEN <<e>> \o sorted
    ELSE <<Head(sorted)>> \o sort_insert(Tail(sorted), e)

(* map.sort_unstable_by(|a, b| a.0.cmp(b.0)) *)
RECURSIVE sort_unstable_by(_)
sort_unstable_by(v) ==
    IF v = <<>> THEN <<>>
    ELSE sort_insert(sort_unstable_by(Tail(v)), Head(v))

(* The orders in which map.into_iter() may yield the entries: any. *)
IterOrders(map) ==
    {o \in [1..Cardinality(DOMAIN map) -> DOMAIN map] :
        \A i, j \in DOMAIN o : i # j => o[i] # o[j]}

(* map.into_iter().collect::<Vec<_>>() in the order o. *)
collect(map, o) == [i \in DOMAIN o |-> [city |-> o[i], details |-> map[o[i]]]]

----------------------------------------------------------------------------
(* read_mmap and read_mmap_unsafe.  A call is [pc, city_start, map,        *)
(* result, trace]: pc is "loop" in the while loop, "returned" once the     *)
(* sorted Vec is returned, "panic" after a panic and "crashed" when        *)
(* undefined behaviour ended the process; trace lists, per turn of the     *)
(* loop, the cursor and the pair of slices cut out there.                  *)

StartCall(b, m) ==
    [pc |-> "loop", city_start |-> Base(b), map |-> m, result |-> <<>>,
     trace |-> <<>>]

(* The turn of the loop once both delimiters are at i and j. *)
loop_body(b, c, i, j, bld) ==
    LET city          == Slice(b, c.city_start, c.city_start + i)
        numeric_start == c.city_start + i + 1
        numeric       == Slice(b, numeric_start, numeric_start + j)
        meas          == parse_digits(numeric, bld)
        upd           == entry_update(c.map, city, meas.val, bld)
        seen          == Append(c.trace, [at |-> c.city_start, city |-> city,
                                          numeric |-> numeric])
    IN  IF ~meas.ok \/ ~upd.ok
        THEN [c EXCEPT !.pc = "panic", !.trace = seen,
                       !.city_start = numeric_start + j + 1]
        ELSE [c EXCEPT !.city_start = numeric_start + j + 1,
                       !.map = upd.map, !.trace = seen]

(* One turn of read_mmap's while loop: unwrap panics on a missing          *)
(* delimiter.                                                              *)
read_mmap_turn(b, c, bld) ==
    LET first == memchr(SEMI, Rest(b, c.city_start))
        second == memchr(NL, Rest(b, c.city_start + first.i + 1))
    IN  IF ~first.some \/ ~second.some THEN [c EXCEPT !.pc = "panic"]
        ELSE loop_body(b, c, first.i, second.i, bld)

(* What unwrap_unchecked may hand back: the offset found, or, on None,     *)
(* whatever the build makes of the undefined behaviour: any offset up to   *)
(* the end of the buffer, or -1 for a process that dies.                   *)
unwrap_unchecked(found, haystack) ==
    IF found.some THEN {found.i} ELSE (-1)..Len(haystack)

(* read_mmap_unsafe's turn with the cursor advanced by one byte too few. *)
read_mmap_unsafe_turn_short(b, c, bld) ==
    LET first == memchr(SEMI, Rest(b, c.city_start))
        second == memchr(NL, Rest(b, c.city_start + first.i + 1))
    IN  IF ~first.some \/ ~second.some THEN {[c EXCEPT !.pc = "crashed"]}
        ELSE {[loop_body(b, c, first.i, second.i, bld) EXCEPT
                 !.city_start = c.city_start + first.i + 1 + second.i]}

(* One turn of read_mmap_unsafe's while loop: the calls it may become. *)
read_mmap_unsafe_turn(b, c, bld) ==
    LET firsts == unwrap_unchecked(memchr(SEMI, Rest(b, c.city_start)),
                                   Rest(b, c.city_start))
    IN  UNION {
          IF i < 0 THEN {[c EXCEPT !.pc = "crashed"]}
          ELSE LET from == c.city_start + i + 1
                   seconds == unwrap_unchecked(memchr(NL, Rest(b, from)),
                                               Rest(b, from))
               IN  { IF j < 0 THEN [c EXCEPT !.pc = "crashed"]
                     ELSE loop_body(b, c, i, j, bld) : j \in seconds }
          : i \in firsts }

(* The end of either function: collect in the table's order, sort, return. *)
finish(c, o) ==
    [c EXCEPT !.pc = "returned",
              !.result = sort_unstable_by(collect(c.map, o))]

----------------------------------------------------------------------------
(* Display for CityDetails and print. *)

(* "{:.1}" of tenths as f64 / 10.0: sign, whole part, one decimal. *)
Fixed1(tenths) ==
    LET a == IF tenths < 0 THEN -tenths ELSE tenths
    IN  [neg |-> tenths < 0, whole |-> a \div 10, frac |-> a % 10]

(* CityDetails::fmt.  min and max are exact; the mean is the f64 quotient  *)
(* sum / count / 10.0 printed with one decimal, kept here as the pair it   *)
(* is computed from.                                                       *)
fmt(d) ==
    [min |-> Fixed1(d.min), mean |-> [sum |-> d.sum, count |-> d.count],
     max |-> Fixed1(d.max)]

Token(kind, city, text) == [kind |-> kind, city |-> city, text |-> text]
NoText == fmt(CityDetailsDefault)
Open == Token("{", <<>>, NoText)
Close == Token("}", <<>>, NoText)
Newline == Token("\n", <<>>, NoText)
Separator == Token(", ", <<>>, NoText)
Entry(e) == Token("entry", e.city, fmt(e.details))

RECURSIVE print_rest(_)
print_rest(v) ==
    IF v = <<>> THEN <<>>
    ELSE <<Separator, Entry(Head(v))>> \o print_rest(Tail(v))

(* print that writes the separator before every entry. *)
print_leading_separator(v) == <<Open>> \o print_rest(v) \o <<Close, Newline>>

(* print: what it writes, piece by piece. *)
print(v) ==
    <<Open>>
    \o (IF v = <<>> THEN <<>> ELSE <<Entry(Head(v))>> \o print_rest(Tail(v)))
    \o <<Close, Newline>>

----------------------------------------------------------------------------
(* Values every specification below leaves alone when it does not use them. *)

NoField == [neg |-> FALSE, whole |-> <<>>, frac |-> 0, bytes |-> <<>>]
NoParse == [done |-> FALSE, ok |-> TRUE, val |-> 0]
NoObserved == [sum |-> Big(0), count |-> 0, steps |-> 0, in_range |-> TRUE,
               panicked |-> FALSE]
NoBuffer == [reps |-> 0, line |-> <<>>, tail |-> <<>>]
NoCall == [pc |-> "idle", city_start |-> 0, map |-> EmptyMap, result |-> <<>>,
           trace |-> <<>>]
NoOutput == [done |-> FALSE, text |-> <<>>]

IdleParse == field = NoField /\ parsed = NoParse
IdleRecord == details = CityDetailsDefault /\ observed = NoObserved
IdleScan == /\ mmap = NoBuffer /\ mmap2 = NoBuffer /\ checked = NoCall
            /\ trusted = NoCall /\ permuted = NoCall /\ out = NoOutput

----------------------------------------------------------------------------
(* SpecParse: parse_digits applied to numeric fields of the documented     *)
(* format: an optional '-', one or more digits, '.', one digit.            *)

MaxDigits == 4
FieldDigits == {0, 2, 3, 6, 7, 8}

RECURSIVE Pow10(_)
Pow10(k) == IF k = 0 THEN 1 ELSE 10 * Pow10(k - 1)

(* The bytes of the field with the given sign, whole digits and decimal. *)
FieldBytes(neg, whole, frac) ==
    (IF neg THEN <<MINUS>> ELSE <<>>)
    \o [i \in 1..Len(whole) |-> ZERO + whole[i]]
    \o <<DOT, ZERO + frac>>

RECURSIVE Positional(_, _)
Positional(whole, i) ==
    IF i > Len(whole) THEN 0
    ELSE whole[i] * Pow10(Len(whole) - i + 1) + Positional(whole, i + 1)

(* The field's mathematical value times ten, from its parts. *)
ExactScaled(f) ==
    (IF f.neg THEN -1 ELSE 1) * (Positional(f.whole, 1) + f.frac)

Fields ==
    { [neg |-> n, whole |-> w, frac |-> d, bytes |-> FieldBytes(n, w, d)] :
        n \in BOOLEAN,
        w \in UNION { [1..k -> FieldDigits] : k \in 1..MaxDigits },
        d \in FieldDigits }

InitParse ==
    /\ build \in Builds
    /\ field \in Fields
    /\ parsed = NoParse
    /\ IdleRecord /\ IdleScan

ParseDigits ==
    /\ ~parsed.done
    /\ LET r == parse_digits(field.bytes, build)
       IN  parsed' = [done |-> TRUE, ok |-> r.ok, val |-> r.val]
    /\ UNCHANGED <<build, field, details, observed, mmap, mmap2, checked,
                   trusted, permuted, out>>

NextParse == ParseDigits

SpecParse == InitParse /\ [][NextParse]_vars

(* C4, as stated: for every numeric field of the documented format,        *)
(* parse_digits returns exactly the field's value times ten, in every      *)
(* build, with no panic and no wrap-around.                                *)
C4_ExactForEveryField ==
    parsed.done => (parsed.ok /\ parsed.val = ExactScaled(field))

(* C4, amended: for every numeric field of the documented format whose     *)
(* value times ten fits the i16 result (|value| <= 3276.7), parse_digits   *)
(* returns exactly the field's value times ten, in every build.            *)
C4_ExactWithinI16 ==
    (parsed.done /\ InI16(ExactScaled(field)) /\ InI16(-ExactScaled(field)))
        => (parsed.ok /\ parsed.val = ExactScaled(field))

(* C4's case: a negative field at the edge of the range, -3276.7, parsed. *)
C4_Witness ==
    /\ parsed.done /\ parsed.ok
    /\ field.neg /\ ExactScaled(field) = -I16Max
    /\ parsed.val = -I16Max

----------------------------------------------------------------------------
(* SpecRecord: one CityDetails under a sequence of update calls.  It       *)
(* starts as the default record, or as the record that n updates with one  *)
(* measurement leave behind, n just short of where the i32 sum runs out.   *)

MaxUpdates == 3
Slack == 2

DocMax == 999 * 10 + 9

InDocRange(meas) == -DocMax <= meas /\ meas <= DocMax

Measurements == {I16Min, -DocMax, -15, 0, 120, DocMax, I16Max}

StartRecords ==
    {[v |-> 0, n |-> 0]}
    \cup {[v |-> DocMax, n |-> (I32Max \div DocMax) - k] : k \in 0..Slack}
    \cup {[v |-> I16Min, n |-> Limb - k] : k \in 0..Slack}

InitRecord ==
    /\ build \in Builds
    /\ \E s \in StartRecords :
        /\ details = AllSame(s.v, s.n)
        /\ observed = [sum |-> Big(s.n * s.v), count |-> s.n, steps |-> 0,
                       in_range |-> InDocRange(s.v), panicked |-> FALSE]
    /\ IdleParse /\ IdleScan

Update(meas) ==
    /\ ~observed.panicked
    /\ observed.steps < MaxUpdates
    /\ LET r == update(details, meas, build)
       IN  /\ details' = r.rec
           /\ observed' =
                IF r.ok
                THEN [sum |-> BigAdd(observed.sum, meas),
                      count |-> observed.count + 1,
                      steps |-> observed.steps + 1,
                      in_range |-> observed.in_range /\ InDocRange(meas),
                      panicked |-> FALSE]
                ELSE [observed EXCEPT
                        !.panicked = TRUE,
                        !.steps = observed.steps + 1,
                        !.in_range = observed.in_range /\ InDocRange(meas)]
    /\ UNCHANGED <<build, field, parsed, mmap, mmap2, checked, trusted,
                   permuted, out>>

NextRecord == \E meas \in Measurements : Update(meas)

SpecRecord == InitRecord /\ [][NextRecord]_vars

(* C2: starting from the default record, after any sequence of update      *)
(* calls, min <= max whenever count > 0.                                   *)
C2_MinLeMax == details.count > 0 => details.min <= details.max

(* C2's case: the default record after updates with different values. *)
C2_Witness ==
    /\ observed.steps = 2 /\ details.count = 2
    /\ details.min = -15 /\ details.max = 120

C5_SumAndCountExact ==
    observed.in_range
        => /\ ~observed.panicked
           /\ Big(details.sum) = observed.sum
           /\ details.count = observed.count

----------------------------------------------------------------------------
(* The input format, read off the bytes without the scanner: the lines a   *)
(* buffer is made of and what each of them says.                           *)

Has(bytes, byte) == \E i \in 1..Len(bytes) : bytes[i] = byte

First(bytes, byte) ==
    CHOOSE i \in 1..Len(bytes) :
        bytes[i] = byte /\ \A j \in 1..(i - 1) : bytes[j] # byte

(* The newline-terminated lines, without their newline. *)
RECURSIVE SplitLines(_)
SplitLines(bytes) ==
    IF ~Has(bytes, NL) THEN <<>>
    ELSE LET n == First(bytes, NL)
         IN  <<SubSeq(bytes, 1, n - 1)>>
             \o SplitLines(SubSeq(bytes, n + 1, Len(bytes)))

(* The last line has no newline. *)
Unterminated(bytes) == bytes # <<>> /\ bytes[Len(bytes)] # NL

KeyOf(line) == SubSeq(line, 1, First(line, SEMI) - 1)
ValueOf(line) == SubSeq(line, First(line, SEMI) + 1, Len(line))

(* Optional '-', one or more digits, '.', one digit. *)
IsNumericField(v) ==
    LET w == IF v # <<>> /\ v[1] = MINUS THEN Tail(v) ELSE v
    IN  /\ Len(w) >= 3
        /\ IsDigit(w[Len(w)])
        /\ w[Len(w) - 1] = DOT
        /\ \A i \in 1..(Len(w) - 2) : IsDigit(w[i])

IsRecordLine(line) ==
    /\ Has(line, SEMI)
    /\ KeyOf(line) # <<>>
    /\ ~Has(ValueOf(line), SEMI)
    /\ IsNumericField(ValueOf(line))

WellFormedBytes(bytes) ==
    /\ ~Unterminated(bytes)
    /\ \A i \in 1..Len(SplitLines(bytes)) : IsRecordLine(SplitLines(bytes)[i])

WellFormed(b) ==
    /\ WellFormedBytes(b.tail)
    /\ b.reps > 0 => WellFormedBytes(b.line)

(* Some line has no ';', or the last line has no newline. *)
LacksDelimiter(bytes) ==
    \/ Unterminated(bytes)
    \/ \E i \in 1..Len(SplitLines(bytes)) : ~Has(SplitLines(bytes)[i], SEMI)

(* The value of a numeric field times ten, as a number. *)
ScaledValue(v) ==
    LET ds == SelectSeq(v, IsDigit)
    IN  (IF v[1] = MINUS THEN -1 ELSE 1)
        * (Positional([i \in 1..Len(ds) |-> ds[i] - ZERO], 1) \div 10)

(* The observations of key K in a well-formed buffer: those of the tail,   *)
(* and reps times that of the repeated line when its key is K.             *)
TailValues(b, K) ==
    LET ls == SplitLines(b.tail)
        at == {i \in 1..Len(ls) : KeyOf(ls[i]) = K}
    IN  [i \in at |-> ScaledValue(ValueOf(ls[i]))]

Repeated(b, K) ==
    IF b.reps > 0 /\ KeyOf(SplitLines(b.line)[1]) = K THEN b.reps ELSE 0

RepeatedValue(b) == ScaledValue(ValueOf(SplitLines(b.line)[1]))

KeysOf(b) ==
    {KeyOf(SplitLines(b.tail)[i]) : i \in 1..Len(SplitLines(b.tail))}
    \cup (IF b.reps > 0 THEN {KeyOf(SplitLines(b.line)[1])} ELSE {})

RECURSIVE BigSum(_, _, _)
BigSum(acc, f, todo) ==
    IF todo = {} THEN acc
    ELSE LET i == CHOOSE i \in todo : TRUE
         IN  BigSum(BigAdd(acc, f[i]), f, todo \ {i})

TrueCount(b, K) == Repeated(b, K) + Cardinality(DOMAIN TailValues(b, K))

TrueSum(b, K) ==
    BigSum(Big(Repeated(b, K) * (IF Repeated(b, K) > 0 THEN RepeatedValue(b)
                                 ELSE 0)),
           TailValues(b, K), DOMAIN TailValues(b, K))

ValuesOf(b, K) ==
    {TailValues(b, K)[i] : i \in DOMAIN TailValues(b, K)}
    \cup (IF Repeated(b, K) > 0 THEN {RepeatedValue(b)} ELSE {})

TrueMin(b, K) == CHOOSE v \in ValuesOf(b, K) : \A w \in ValuesOf(b, K) : v <= w
TrueMax(b, K) == CHOOSE v \in ValuesOf(b, K) : \A w \in ValuesOf(b, K) : v >= w

(* The table the repeated lines leave behind: one key, reps observations. *)
MapAfterRepeats(b) ==
    IF b.reps = 0 THEN EmptyMap
    ELSE KeyOf(SplitLines(b.line)[1]) :> AllSame(RepeatedValue(b), b.reps)

----------------------------------------------------------------------------
(* Buffers. *)

MaxLines == 3

Line(key, value) == key \o <<SEMI>> \o value \o <<NL>>

RECURSIVE Concat(_)
Concat(chunks) ==
    IF chunks = <<>> THEN <<>> ELSE Head(chunks) \o Concat(Tail(chunks))

ChunkSeqs(chunks) == UNION {[1..n -> chunks] : n \in 0..MaxLines}

(* "A", "AB", "B" *)
Keys == {<<65>>, <<65, 66>>, <<66>>}

(* "-1.5", "12.0" *)
Values == {<<MINUS, 49, DOT, 53>>, <<49, 50, DOT, ZERO>>}

(* "B8.0\n" has no ';', "A;8.0" has no newline. *)
BadChunks == {<<66, 56, DOT, ZERO, NL>>, <<65, SEMI, 56, DOT, ZERO>>}

Chunks == {Line(k, v) : k \in Keys, v \in Values} \cup BadChunks

Buffers ==
    {[reps |-> 0, line |-> <<>>, tail |-> Concat(cs)] : cs \in ChunkSeqs(Chunks)}

Finished(c) == c.pc \in {"returned", "panic", "crashed"}

----------------------------------------------------------------------------
(* Spec: read_mmap on a buffer, then print of what it returned. *)

Init ==
    /\ build \in Builds
    /\ mmap \in Buffers
    /\ checked = StartCall(mmap, EmptyMap)
    /\ trusted = NoCall /\ permuted = NoCall /\ mmap2 = NoBuffer
    /\ out = NoOutput
    /\ IdleParse /\ IdleRecord

ReadMmapLoop ==
    /\ checked.pc = "loop"
    /\ checked.city_start < BufLen(mmap)
    /\ checked' = read_mmap_turn(mmap, checked, build)
    /\ UNCHANGED <<build, field, parsed, details, observed, mmap, mmap2,
                   trusted, permuted, out>>

ReadMmapReturn ==
    /\ checked.pc = "loop"
    /\ checked.city_start >= BufLen(mmap)
    /\ \E o \in IterOrders(checked.map) : checked' = finish(checked, o)
    /\ UNCHANGED <<build, field, parsed, details, observed, mmap, mmap2,
                   trusted, permuted, out>>

PrintResult ==
    /\ checked.pc = "returned"
    /\ ~out.done
    /\ out' = [done |-> TRUE, text |-> print(checked.result)]
    /\ UNCHANGED <<build, field, parsed, details, observed, mmap, mmap2,
                   checked, trusted, permuted>>

Next == ReadMmapLoop \/ ReadMmapReturn \/ PrintResult

Spec == Init /\ [][Next]_vars

(* a is before b in byte-lexicographic order: a proper prefix of b, or     *)
(* smaller at the first byte where they differ.                            *)
BytesLess(a, b) ==
    \/ Len(a) < Len(b) /\ \A i \in 1..Len(a) : a[i] = b[i]
    \/ \E k \in 1..Len(a) :
        /\ k <= Len(b)
        /\ a[k] < b[k]
        /\ \A i \in 1..(k - 1) : a[i] = b[i]

(* C6: whenever some line of the buffer lacks its ';' or the last line     *)
(* lacks its newline, read_mmap ends in a failure and returns no sequence. *)
C6_LackingDelimiterFails ==
    LacksDelimiter(mmap.tail) => checked.pc # "returned"

(* C9: the sequence read_mmap returns holds exactly the table's entries,   *)
(* its keys strictly increasing in byte-lexicographic order, whatever      *)
(* order the table yields them in; print writes them in that order.        *)
C9_KeysStrictlyIncreasing ==
    checked.pc = "returned" =>
        LET r == checked.result
        IN  /\ \A i \in 1..(Len(r) - 1) : BytesLess(r[i].city, r[i + 1].city)
            /\ Len(r) = Cardinality(DOMAIN checked.map)
            /\ \A i \in 1..Len(r) :
                /\ r[i].city \in DOMAIN checked.map
                /\ r[i].details = checked.map[r[i].city]
            /\ out.done =>
                LET es == SelectSeq(out.text, LAMBDA t : t.kind = "entry")
                IN  /\ Len(es) = Len(r)
                    /\ \A i \in 1..Len(r) : es[i] = Entry(r[i])

(* C9's case: three keys, met in the buffer in another order than the      *)
(* sorted one, returned and printed.                                       *)
C9_Witness ==
    /\ out.done
    /\ Len(checked.result) = 3
    /\ checked.trace[1].city = <<66>>
    /\ checked.trace[2].city = <<65, 66>>

(* C10: on an empty buffer read_mmap takes no turn of its loop, does not   *)
(* fail and returns the empty sequence, and print writes "{" and "}" with  *)
(* nothing between; for n > 0 entries print writes ", " between            *)
(* consecutive entries only: "{", entry, (", ", entry)*, "}".              *)
C10_EmptyAndSeparators ==
    /\ BufLen(mmap) = 0 =>
        /\ checked.pc \in {"loop", "returned"}
        /\ checked.trace = <<>>
        /\ checked.result = <<>>
        /\ out.done => out.text = <<Open, Close, Newline>>
    /\ out.done =>
        LET t == out.text
            n == Len(checked.result)
        IN  /\ Len(t) = 3 + (IF n = 0 THEN 0 ELSE 2 * n - 1)
            /\ t[1] = Open /\ t[Len(t) - 1] = Close /\ t[Len(t)] = Newline
            /\ \A i \in 2..(Len(t) - 2) :
                IF i % 2 = 0 THEN t[i] = Entry(checked.result[i \div 2])
                ELSE t[i] = Separator

(* C10's case: the empty buffer, read and printed. *)
C10_Witness ==
    /\ BufLen(mmap) = 0
    /\ checked.pc = "returned"
    /\ out.done /\ Len(out.text) = 3

----------------------------------------------------------------------------
(* SpecEquiv: read_mmap and read_mmap_unsafe on the same buffer.  The two  *)
(* calls are independent; the second is taken once the first has ended.    *)

InitEquiv ==
    /\ build \in Builds
    /\ mmap \in Buffers
    /\ checked = StartCall(mmap, EmptyMap)
    /\ trusted = StartCall(mmap, EmptyMap)
    /\ permuted = NoCall /\ mmap2 = NoBuffer
    /\ out = NoOutput
    /\ IdleParse /\ IdleRecord

ReadMmapUnsafeLoop ==
    /\ Finished(checked)
    /\ trusted.pc = "loop"
    /\ trusted.city_start < BufLen(mmap)
    /\ trusted' \in read_mmap_unsafe_turn(mmap, trusted, build)
    /\ UNCHANGED <<build, field, parsed, details, observed, mmap, mmap2,
                   checked, permuted, out>>

ReadMmapUnsafeReturn ==
    /\ Finished(checked)
    /\ trusted.pc = "loop"
    /\ trusted.city_start >= BufLen(mmap)
    /\ \E o \in IterOrders(trusted.map) : trusted' = finish(trusted, o)
    /\ UNCHANGED <<build, field, parsed, details, observed, mmap, mmap2,
                   checked, permuted, out>>

NextEquiv ==
    \/ ReadMmapLoop
    \/ ReadMmapReturn
    \/ ReadMmapUnsafeLoop
    \/ ReadMmapUnsafeReturn

SpecEquiv == InitEquiv /\ [][NextEquiv]_vars

IsPrefix(s, t) == Len(s) <= Len(t) /\ \A i \in 1..Len(s) : s[i] = t[i]

(* C7: on a well-formed buffer read_mmap_unsafe goes through the cursor    *)
(* positions and (key, numeric) pairs of read_mmap, in the same order,     *)
(* and ends as read_mmap does, with the same sorted sequence.              *)
C7_SameScanSameResult ==
    (WellFormed(mmap) /\ Finished(checked)) =>
        /\ IsPrefix(trusted.trace, checked.trace)
        /\ trusted.pc # "crashed"
        /\ Finished(trusted) =>
            /\ trusted.pc = checked.pc
            /\ trusted.trace = checked.trace
            /\ trusted.city_start = checked.city_start
            /\ trusted.result = checked.result

(* C7's case: a well-formed buffer of three lines, read by both. *)
C7_Witness ==
    /\ WellFormed(mmap)
    /\ checked.pc = "returned" /\ trusted.pc = "returned"
    /\ Len(trusted.trace) = 3
    /\ Len(trusted.result) = 2

----------------------------------------------------------------------------
(* SpecPerm: read_mmap on two well-formed buffers holding the same lines   *)
(* in two orders.  A buffer is either short, read from its first byte, or  *)
(* long: the line "A;999.9" as many times as the i32 sum of key A can      *)
(* take, then a few more lines.  The scan of a long buffer is taken up     *)
(* where it has consumed the repeated lines, which leave the table with    *)
(* the one record AllSame(9999, reps).  The two calls are independent;     *)
(* the second is taken once the first has ended.                           *)

(* "A", "B" *)
PermKeys == {<<65>>, <<66>>}

(* "999.9", "-999.9", "8.0" *)
PermValues == {<<NINE, NINE, NINE, DOT, NINE>>,
               <<MINUS, NINE, NINE, NINE, DOT, NINE>>,
               <<56, DOT, ZERO>>}

PermLines == {Line(k, v) : k \in PermKeys, v \in PermValues}

RepeatedLine == Line(<<65>>, <<NINE, NINE, NINE, DOT, NINE>>)

Orders(n) == {p \in [1..n -> 1..n] : \A i, j \in 1..n : i # j => p[i] # p[j]}

LongBuffer(reps, chunks) ==
    [reps |-> reps, line |-> IF reps = 0 THEN <<>> ELSE RepeatedLine,
     tail |-> Concat(chunks)]

InitPerm ==
    /\ build \in Builds
    /\ \E reps \in {0, I32Max \div DocMax} :
       \E cs \in ChunkSeqs(PermLines) :
       \E p \in Orders(Len(cs)) :
        /\ mmap = LongBuffer(reps, cs)
        /\ mmap2 = LongBuffer(reps, [i \in 1..Len(cs) |-> cs[p[i]]])
    /\ checked = StartCall(mmap, MapAfterRepeats(mmap))
    /\ permuted = StartCall(mmap2, MapAfterRepeats(mmap2))
    /\ trusted = NoCall
    /\ out = NoOutput
    /\ IdleParse /\ IdleRecord

ReadPermutedLoop ==
    /\ Finished(checked)
    /\ permuted.pc = "loop"
    /\ permuted.city_start < BufLen(mmap2)
    /\ permuted' = read_mmap_turn(mmap2, permuted, build)
    /\ UNCHANGED <<build, field, parsed, details, observed, mmap, mmap2,
                   checked, trusted, out>>

ReadPermutedReturn ==
    /\ Finished(checked)
    /\ permuted.pc = "loop"
    /\ permuted.city_start >= BufLen(mmap2)
    /\ \E o \in IterOrders(permuted.map) : permuted' = finish(permuted, o)
    /\ UNCHANGED <<build, field, parsed, details, observed, mmap, mmap2,
                   checked, trusted, out>>

NextPerm ==
    \/ ReadMmapLoop
    \/ ReadMmapReturn
    \/ ReadPermutedLoop
    \/ ReadPermutedReturn

SpecPerm == InitPerm /\ [][NextPerm]_vars

(* C1: for every well-formed buffer read_mmap returns, and the sequence    *)
(* returned has a record for exactly the keys of the buffer, each with     *)
(* count the number of its lines, sum the sum of their scaled values, min  *)
(* the smallest and max the largest of them.                               *)
C1_RecordsMatchObservations ==
    (WellFormed(mmap) /\ Finished(checked)) =>
        /\ checked.pc = "returned"
        /\ {checked.result[i].city : i \in 1..Len(checked.result)}
             = KeysOf(mmap)
        /\ Len(checked.result) = Cardinality(KeysOf(mmap))
        /\ \A i \in 1..Len(checked.result) :
            LET K == checked.result[i].city
                d == checked.result[i].details
            IN  /\ d.count = TrueCount(mmap, K)
                /\ Big(d.sum) = TrueSum(mmap, K)
                /\ d.min = TrueMin(mmap, K)
                /\ d.max = TrueMax(mmap, K)

(* C8: on two well-formed buffers whose lines are the same up to their     *)
(* order read_mmap ends the same way and returns the same sequence.        *)
C8_OrderIndependent ==
    (WellFormed(mmap) /\ WellFormed(mmap2)
     /\ Finished(checked) /\ Finished(permuted)) =>
        /\ checked.pc = permuted.pc
        /\ checked.result = permuted.result

====
